---- MODULE Spec2Model ----
(***************************************************************************)
(* CurrentAnsLookup::from_transaction                                      *)
(* (crates/indexer/src/models/token_models/ans_lookup.rs).                 *)
(*                                                                         *)
(* One call of from_transaction is a run of the state machine: Init picks  *)
(* the two arguments (the transaction and the optional contract address),  *)
(* the Call* actions are the two `if let` tests that guard the loop, each  *)
(* loop iteration is one action (one per path through the loop body), and  *)
(* Return hands the map to the caller.  A panic ends the run in            *)
(* pc = "panicked" with nothing returned.                                  *)
(*                                                                         *)
(* 64-bit integers are kept at full width as four 16-bit limbs, least      *)
(* significant first; a signed value is a sign and a magnitude.            *)
(***************************************************************************)
EXTENDS Integers, Sequences, FiniteSets, TLC

\* Longest event list of a transaction.
MaxEvents == 3

(***************************************************************************)
(* 64-bit arithmetic                                                       *)
(***************************************************************************)
LimbBase == 256 * 256
LimbTop == 128 * 256

Limbs == 1..4

U64Zero == <<0, 0, 0, 0>>

\* a <= b on limb vectors (unsigned comparison, most significant limb first)
RECURSIVE LimbLeqFrom(_, _, _)
LimbLeqFrom(a, b, k) ==
    IF k = 0 THEN TRUE
    ELSE IF a[k] < b[k] THEN TRUE
    ELSE IF a[k] > b[k] THEN FALSE
    ELSE LimbLeqFrom(a, b, k - 1)

U64Leq(a, b) == LimbLeqFrom(a, b, 4)

\* 2^64 - u for u # 0 : complement every limb, add one with carry
RECURSIVE AddOneFrom(_, _)
AddOneFrom(u, k) ==
    IF k > 4 THEN u
    ELSE IF u[k] = LimbBase - 1
         THEN AddOneFrom([u EXCEPT ![k] = 0], k + 1)
         ELSE [u EXCEPT ![k] = u[k] + 1]

TwosComplement(u) == AddOneFrom([k \in Limbs |-> (LimbBase - 1) - u[k]], 1)

\* `x as i64` on a u64: the bit pattern is kept, the top bit becomes the sign.
AsI64(u) ==
    IF u[4] < LimbTop
    THEN [neg |-> FALSE, mag |-> u]
    ELSE [neg |-> TRUE, mag |-> TwosComplement(u)]


(***************************************************************************)
(* Values                                                                  *)
(***************************************************************************)
\* Option<String>
None == [some |-> FALSE, v |-> ""]
Some(x) == [some |-> TRUE, v |-> x]

\* Option::unwrap_or_default on Option<String>
UnwrapOrDefault(o) == IF o.some THEN o.v ELSE ""

\* Mutant: a container of one element is taken for an empty one.
GetString_NeedsTwo(vec) == IF Len(vec) <= 1 THEN None ELSE Some(vec[1])

\* OptionalString::get_string
GetString(vec) == IF Len(vec) = 0 THEN None ELSE Some(vec[1])

V42 == <<42, 0, 0, 0>>
V2p63 == <<0, 0, 0, LimbTop>>
Secs1700000000 == <<61696, 25939, 0, 0>>
Secs1800000000 == <<53760, 27465, 0, 0>>
U64Max == <<LimbBase - 1, LimbBase - 1, LimbBase - 1, LimbBase - 1>>

(***************************************************************************)
(* The wire form of an event payload (serde_json::Value).  A field is      *)
(* `present` when the JSON object has the key with a value of the JSON     *)
(* type the struct field needs: a string for domain_name, an object        *)
(* {"vec": [strings]} for an OptionalString, a string for                  *)
(* expiration_time_secs.  The text of expiration_time_secs is `numeric`    *)
(* when it is a decimal numeral; then neg and mag are its sign and value.  *)
(***************************************************************************)
JStr(s) == [present |-> TRUE, s |-> s]
JNoStr == [present |-> FALSE, s |-> ""]
JVec(v) == [present |-> TRUE, vec |-> v]
JNoVec == [present |-> FALSE, vec |-> <<>>]
JNum(neg, mag) == [present |-> TRUE, numeric |-> TRUE, neg |-> neg, mag |-> mag]
JNotNum == [present |-> TRUE, numeric |-> FALSE, neg |-> FALSE, mag |-> U64Zero]
JNoNum == [present |-> FALSE, numeric |-> FALSE, neg |-> FALSE, mag |-> U64Zero]

Payload(d, s, a, e) ==
    [domain_name |-> d, subdomain_name |-> s, new_address |-> a,
     expiration_time_secs |-> e]

\* MoveType: the struct tag of an event, or another type
StructType(address, module, name) ==
    [tag |-> "Struct", address |-> address, module |-> module, name |-> name]
U64Type == [tag |-> "U64", address |-> "", module |-> "", name |-> ""]

AnsAddr == "0x1"
OtherAddr == "0x2"

SetType(a) == StructType(a, "domains", "SetNameAddressEventV1")
RegType(a) == StructType(a, "domains", "RegisterNameEventV1")

Ev(typ, data) == [typ |-> typ, data |-> data]

\* alice -> 0xabc, expiring 1700000000 (the scenario of the specification)
SetAliceAbc ==
    Ev(SetType(AnsAddr),
       Payload(JStr("alice"), JVec(<<>>), JVec(<<"0xabc">>), JNum(FALSE, Secs1700000000)))
\* alice registered, expiring 1800000000; the payload also has an address
RegAlice ==
    Ev(RegType(AnsAddr),
       Payload(JStr("alice"), JVec(<<>>), JVec(<<"0xdef">>), JNum(FALSE, Secs1800000000)))
\* alice's address cleared
SetAliceClear ==
    Ev(SetType(AnsAddr),
       Payload(JStr("alice"), JVec(<<>>), JVec(<<>>), JNum(FALSE, Secs1800000000)))
\* sub.alice, no address
SetSubAlice ==
    Ev(SetType(AnsAddr),
       Payload(JStr("alice"), JVec(<<"sub">>), JVec(<<>>), JNum(FALSE, Secs1700000000)))
\* a registration with an empty domain name
RegEmptyDomain ==
    Ev(RegType(AnsAddr),
       Payload(JStr(""), JVec(<<"sub">>), JNoVec, JNum(FALSE, Secs1700000000)))
\* a registration without domain_name
RegNoDomain ==
    Ev(RegType(AnsAddr),
       Payload(JNoStr, JVec(<<>>), JNoVec, JNum(FALSE, Secs1700000000)))
\* an address update whose expiration is not a numeral
SetNotNumeric ==
    Ev(SetType(AnsAddr),
       Payload(JStr("bob"), JVec(<<>>), JVec(<<"0xabc">>), JNotNum))
\* an address update expiring at -1
SetNegative ==
    Ev(SetType(AnsAddr),
       Payload(JStr("bob"), JVec(<<>>), JVec(<<"0xabc">>), JNum(TRUE, <<1, 0, 0, 0>>)))
\* a registration expiring at 2^64 - 1, past the last calendar timestamp
RegTooLate ==
    Ev(RegType(AnsAddr),
       Payload(JStr("bob"), JVec(<<>>), JNoVec, JNum(FALSE, U64Max)))
\* another event of the contract
Unrelated ==
    Ev(StructType(AnsAddr, "other", "Unrelated"),
       Payload(JStr("alice"), JNoVec, JNoVec, JNoNum))
\* the same event types defined at another address
OtherSet ==
    Ev(SetType(OtherAddr),
       Payload(JStr("alice"), JVec(<<>>), JVec(<<"0xbad">>), JNum(FALSE, Secs1700000000)))
OtherRegBad ==
    Ev(RegType(OtherAddr),
       Payload(JNoStr, JVec(<<>>), JNoVec, JNum(TRUE, <<1, 0, 0, 0>>)))
\* an event whose type is no struct
NotStruct ==
    Ev(U64Type,
       Payload(JStr("alice"), JVec(<<>>), JVec(<<"0xabc">>), JNum(FALSE, Secs1700000000)))

Events ==
    {SetAliceAbc, RegAlice, SetAliceClear, SetSubAlice, RegEmptyDomain, RegNoDomain,
     SetNotNumeric, SetNegative, RegTooLate, Unrelated, OtherSet, OtherRegBad, NotStruct}

EventLists == UNION {[1..n -> Events] : n \in 0..MaxEvents}

Kinds == {"UserTransaction", "BlockMetadataTransaction"}
Versions == {V42, V2p63}

Transactions == [kind : Kinds, version : Versions, events : EventLists]

(***************************************************************************)
(* Decoding                                                                *)
(***************************************************************************)
\* deserialize_from_string on expiration_time_secs: the JSON value must be a
\* string and the string must parse as a BigDecimal.
DeserializeFromString(field) ==
    [ok |-> field.present /\ field.numeric,
     value |-> [neg |-> field.neg, mag |-> field.mag]]

\* serde_json::from_value::<SetNameAddressEventV1>: Ok when every field of
\* the struct is there with its type; other keys of the object are ignored.
DecodeSetNameAddressEventV1(data) ==
    [ok |-> /\ data.subdomain_name.present
            /\ data.domain_name.present
            /\ data.new_address.present
            /\ DeserializeFromString(data.expiration_time_secs).ok,
     inner |-> [variant |-> "SetNameAddressEventV1",
                subdomain_name |-> data.subdomain_name.vec,
                domain_name |-> data.domain_name.s,
                new_address |-> data.new_address.vec,
                expiration_time_secs |->
                    DeserializeFromString(data.expiration_time_secs).value]]

\* serde_json::from_value::<RegisterNameEventV1>: the struct has no
\* new_address, so that key is neither needed nor kept.
DecodeRegisterNameEventV1(data) ==
    [ok |-> /\ data.subdomain_name.present
            /\ data.domain_name.present
            /\ DeserializeFromString(data.expiration_time_secs).ok,
     inner |-> [variant |-> "RegisterNameEventV1",
                subdomain_name |-> data.subdomain_name.vec,
                domain_name |-> data.domain_name.s,
                expiration_time_secs |->
                    DeserializeFromString(data.expiration_time_secs).value]]

\* format!("{}::{}", inner.module, inner.name)
QualifiedType(typ) == typ.module \o "::" \o typ.name

\* Mutant: the address test is dropped.
AddressMatches_Any(event_addr, a) == TRUE

\* the comparison of line 90, negated: the event is the contract's
AddressMatches(event_addr, a) == event_addr = a

NoAnsEvent == [variant |-> "None"]

\* Mutant: a decode error is swallowed into Ok(None).
MaybeAnsEvent_ErrIsNone(event_type, data) ==
    CASE event_type = "domains::SetNameAddressEventV1" ->
            [ok |-> TRUE, some |-> DecodeSetNameAddressEventV1(data).ok,
             ev |-> DecodeSetNameAddressEventV1(data).inner]
      [] event_type = "domains::RegisterNameEventV1" ->
            [ok |-> TRUE, some |-> DecodeRegisterNameEventV1(data).ok,
             ev |-> DecodeRegisterNameEventV1(data).inner]
      [] OTHER -> [ok |-> TRUE, some |-> FALSE, ev |-> NoAnsEvent]

\* Mutant: the registration arm decodes with the address update's struct.
MaybeAnsEvent_RegisterAsSet(event_type, data) ==
    CASE event_type \in {"domains::SetNameAddressEventV1",
                         "domains::RegisterNameEventV1"} ->
            [ok |-> DecodeSetNameAddressEventV1(data).ok, some |-> TRUE,
             ev |-> DecodeSetNameAddressEventV1(data).inner]
      [] OTHER -> [ok |-> TRUE, some |-> FALSE, ev |-> NoAnsEvent]

\* Mutant: the default arm is an error.
MaybeAnsEvent_UnknownIsErr(event_type, data) ==
    CASE event_type = "domains::SetNameAddressEventV1" ->
            [ok |-> DecodeSetNameAddressEventV1(data).ok, some |-> TRUE,
             ev |-> DecodeSetNameAddressEventV1(data).inner]
      [] event_type = "domains::RegisterNameEventV1" ->
            [ok |-> DecodeRegisterNameEventV1(data).ok, some |-> TRUE,
             ev |-> DecodeRegisterNameEventV1(data).inner]
      [] OTHER -> [ok |-> FALSE, some |-> FALSE, ev |-> NoAnsEvent]

\* The match on event_type: Result<Option<ANSEvent>, serde_json::Error>.
\* ok = FALSE is Err(e); some = FALSE is Ok(None).
MaybeAnsEvent(event_type, data) ==
    CASE event_type = "domains::SetNameAddressEventV1" ->
            [ok |-> DecodeSetNameAddressEventV1(data).ok, some |-> TRUE,
             ev |-> DecodeSetNameAddressEventV1(data).inner]
      [] event_type = "domains::RegisterNameEventV1" ->
            [ok |-> DecodeRegisterNameEventV1(data).ok, some |-> TRUE,
             ev |-> DecodeRegisterNameEventV1(data).inner]
      [] OTHER -> [ok |-> TRUE, some |-> FALSE, ev |-> NoAnsEvent]

(***************************************************************************)
(* The expiration timestamp                                                *)
(***************************************************************************)
\* Seconds of the last calendar timestamp a NaiveDateTime holds
\* (262143-12-31 23:59:59 = 8210298412799).
NaiveDateTimeMaxSecs == <<40703, 39915, 1911, 0>>

\* bigdecimal_to_u64: the value as an unsigned integer; a negative value has
\* none.
BigdecimalToU64(d) ==
    [ok |-> ~d.neg \/ d.mag = U64Zero, v |-> d.mag]

\* parse_timestamp_secs: the calendar timestamp of ts seconds after the
\* epoch, written here as its seconds; no timestamp past the calendar's end.
ParseTimestampSecs(ts) ==
    [ok |-> U64Leq(ts, NaiveDateTimeMaxSecs), t |-> [secs |-> ts]]

(***************************************************************************)
(* Records and the map                                                     *)
(***************************************************************************)
\* Mutant: both arms leave the address out.
BuildRecord_SetWithoutAddress(ev, txn_version, expiration_timestamp, now) ==
    [domain |-> ev.domain_name,
     subdomain |-> UnwrapOrDefault(GetString(ev.subdomain_name)),
     registered_address |-> None,
     last_transaction_version |-> txn_version,
     expiration_timestamp |-> expiration_timestamp,
     inserted_at |-> now]

\* The struct literal of each arm of `match ans_event`.
BuildRecord(ev, txn_version, expiration_timestamp, now) ==
    CASE ev.variant = "SetNameAddressEventV1" ->
            [domain |-> ev.domain_name,
             subdomain |-> UnwrapOrDefault(GetString(ev.subdomain_name)),
             registered_address |-> GetString(ev.new_address),
             last_transaction_version |-> txn_version,
             expiration_timestamp |-> expiration_timestamp,
             inserted_at |-> now]
      [] ev.variant = "RegisterNameEventV1" ->
            [domain |-> ev.domain_name,
             subdomain |-> UnwrapOrDefault(GetString(ev.subdomain_name)),
             registered_address |-> None,
             last_transaction_version |-> txn_version,
             expiration_timestamp |-> expiration_timestamp,
             inserted_at |-> now]

EmptyMap == [k \in {} |-> None]

\* Mutant: a field-level merge, an absent address keeps the stored one.
MapInsert_Merge(m, key, rec) ==
    [k \in DOMAIN m \cup {key} |->
        IF k # key THEN m[k]
        ELSE IF key \in DOMAIN m /\ ~rec.registered_address.some
             THEN [rec EXCEPT !.registered_address = m[key].registered_address]
             ELSE rec]

\* Mutant: the insert starts the map afresh.
MapInsert_Singleton(m, key, rec) == [k \in {key} |-> rec]

\* HashMap::insert: the value at the key is replaced
MapInsert(m, key, rec) ==
    [k \in DOMAIN m \cup {key} |-> IF k = key THEN rec ELSE m[k]]

\* Mutant: a record is filed under its domain alone.
KeyOf_DomainOnly(rec) == <<rec.domain, "">>

\* the key of the insert of lines 149-155
KeyOf(rec) == <<rec.domain, rec.subdomain>>

(***************************************************************************)
(* The call                                                                *)
(***************************************************************************)
VARIABLES
    transaction,            \* argument (line 75): kind, version, events
    ans_contract_address,   \* argument (line 76): Option<String>
    pc,                     \* "call", "loop", "returned" or "panicked"
    addr,                   \* the address bound by `if let Some(addr)` (79)
    i,                      \* position of `event` in user_txn.events (81)
    current_ans_lookups,    \* the map under construction (78)
    returned,               \* what the caller received, once it has (160)
    panic_msg,              \* the panic's message, once panicked (105-110)
    clock,                  \* the last reading of chrono::Utc::now() (127, 144)
    parked                  \* the locals of the call that is not running, if
                            \* the caller runs two calls

vars ==
    <<transaction, ans_contract_address, pc, addr, i, current_ans_lookups,
      returned, panic_msg, clock, parked>>

NoMap == [some |-> FALSE, map |-> EmptyMap]
NoPanic == [what |-> "none"]
\* no other call
NoCall == [id |-> 0]

Init ==
    /\ transaction \in Transactions
    /\ ans_contract_address \in {None, Some(AnsAddr)}
    /\ pc = "call"
    /\ addr = ""
    /\ i = 0
    /\ current_ans_lookups = EmptyMap
    /\ returned = NoMap
    /\ panic_msg = NoPanic
    /\ clock = 0
    /\ parked = NoCall

\* Mutant: every kind of transaction is looped over.
IsUserTransaction_Any(txn) == TRUE

\* `if let APITransaction::UserTransaction(user_txn) = transaction`
IsUserTransaction(txn) == txn.kind = "UserTransaction"

\* `let txn_version = user_txn.info.version.0 as i64`
TxnVersion == AsI64(transaction.version)

event == transaction.events[i]
event_type == QualifiedType(event.typ)
maybe_ans_event == MaybeAnsEvent(event_type, event.data)
InLoop == pc = "loop" /\ i <= Len(transaction.events)

\* Mutant: the address is tested after the decode, not before.
Accepted_AnyAddress(e, a) == e.typ.tag = "Struct"

\* the event passes the two `continue`s of lines 82-92
Accepted(e, a) == e.typ.tag = "Struct" /\ AddressMatches(e.typ.address, a)

\* What no step of from_transaction writes: its arguments, and the locals
\* of another call.
Inputs == <<transaction, ans_contract_address, parked>>

\* Mutant: without a configured address a default one is used.
CallDisabled_DefaultAddress ==
    /\ pc = "call"
    /\ ~ans_contract_address.some
    /\ pc' = "loop"
    /\ addr' = AnsAddr
    /\ i' = 1
    /\ UNCHANGED <<Inputs, current_ans_lookups, returned, panic_msg, clock>>

\* No address configured: neither `if let` body runs, the empty map returns.
CallDisabled ==
    /\ pc = "call"
    /\ ~ans_contract_address.some
    /\ pc' = "returned"
    /\ returned' = [some |-> TRUE, map |-> current_ans_lookups]
    /\ UNCHANGED <<Inputs, addr, i, current_ans_lookups, panic_msg, clock>>

\* An address, but no user transaction: the loop is not entered.
CallNotUser ==
    /\ pc = "call"
    /\ ans_contract_address.some
    /\ ~IsUserTransaction(transaction)
    /\ pc' = "returned"
    /\ addr' = ans_contract_address.v
    /\ returned' = [some |-> TRUE, map |-> current_ans_lookups]
    /\ UNCHANGED <<Inputs, i, current_ans_lookups, panic_msg, clock>>

\* An address and a user transaction: start `for event in &user_txn.events`.
CallUser ==
    /\ pc = "call"
    /\ ans_contract_address.some
    /\ IsUserTransaction(transaction)
    /\ pc' = "loop"
    /\ addr' = ans_contract_address.v
    /\ i' = 1
    /\ UNCHANGED <<Inputs, current_ans_lookups, returned, panic_msg, clock>>

Continue ==
    /\ i' = i + 1
    /\ UNCHANGED <<Inputs, pc, addr, current_ans_lookups, returned, panic_msg, clock>>

Panic(msg) ==
    /\ pc' = "panicked"
    /\ panic_msg' = msg
    /\ UNCHANGED <<Inputs, addr, i, current_ans_lookups, returned, clock>>

\* event.typ is no MoveType::Struct
SkipNotStruct ==
    /\ InLoop
    /\ event.typ.tag # "Struct"
    /\ Continue

\* event_addr != addr
SkipOtherAddress ==
    /\ InLoop
    /\ event.typ.tag = "Struct"
    /\ ~AddressMatches(event.typ.address, addr)
    /\ Continue

\* the `_ => Ok(None)` arm: maybe_ans_event is None
SkipUnrecognized ==
    /\ InLoop
    /\ Accepted(event, addr)
    /\ maybe_ans_event.ok
    /\ ~maybe_ans_event.some
    /\ Continue

\* serde_json::from_value fails: the panic of unwrap_or_else
PanicDecode ==
    /\ InLoop
    /\ Accepted(event, addr)
    /\ ~maybe_ans_event.ok
    /\ Panic([what |-> "decode", version |-> TxnVersion,
              event_type |-> event_type, data |-> event.data])

\* the expiration is no unsigned integer; bigdecimal_to_u64 is handed the
\* value alone, so its message has no version
PanicBigdecimalToU64 ==
    /\ InLoop
    /\ Accepted(event, addr)
    /\ maybe_ans_event.ok
    /\ maybe_ans_event.some
    /\ ~BigdecimalToU64(maybe_ans_event.ev.expiration_time_secs).ok
    /\ Panic([what |-> "bigdecimal_to_u64",
              value |-> maybe_ans_event.ev.expiration_time_secs])

\* the expiration is no calendar timestamp; parse_timestamp_secs is handed
\* the value and txn_version
PanicParseTimestampSecs ==
    /\ InLoop
    /\ Accepted(event, addr)
    /\ maybe_ans_event.ok
    /\ maybe_ans_event.some
    /\ BigdecimalToU64(maybe_ans_event.ev.expiration_time_secs).ok
    /\ ~ParseTimestampSecs(BigdecimalToU64(maybe_ans_event.ev.expiration_time_secs).v).ok
    /\ Panic([what |-> "timestamp", version |-> TxnVersion,
              value |-> maybe_ans_event.ev.expiration_time_secs])

\* the record is built and inserted under (domain, subdomain)
InsertRecord ==
    /\ InLoop
    /\ Accepted(event, addr)
    /\ maybe_ans_event.ok
    /\ maybe_ans_event.some
    /\ BigdecimalToU64(maybe_ans_event.ev.expiration_time_secs).ok
    /\ ParseTimestampSecs(BigdecimalToU64(maybe_ans_event.ev.expiration_time_secs).v).ok
    /\ \E now \in {clock, clock + 1} :
          LET ts == ParseTimestampSecs(
                        BigdecimalToU64(maybe_ans_event.ev.expiration_time_secs).v).t
              rec == BuildRecord(maybe_ans_event.ev, TxnVersion, ts, now)
          IN  /\ current_ans_lookups' = MapInsert(current_ans_lookups, KeyOf(rec), rec)
              /\ clock' = now
    /\ i' = i + 1
    /\ UNCHANGED <<Inputs, pc, addr, returned, panic_msg>>

\* the loop is over: `current_ans_lookups` is the result
Return ==
    /\ pc = "loop"
    /\ i > Len(transaction.events)
    /\ pc' = "returned"
    /\ returned' = [some |-> TRUE, map |-> current_ans_lookups]
    /\ UNCHANGED <<Inputs, addr, i, current_ans_lookups, panic_msg, clock>>

Next ==
    \/ CallDisabled
    \/ CallNotUser
    \/ CallUser
    \/ SkipNotStruct
    \/ SkipOtherAddress
    \/ SkipUnrecognized
    \/ PanicDecode
    \/ PanicBigdecimalToU64
    \/ PanicParseTimestampSecs
    \/ InsertRecord
    \/ Return

Spec == Init /\ [][Next]_vars

(***************************************************************************)
(* Two calls, run by the caller one after the other or interleaved.  The   *)
(* variables above are the locals of the running call; `parked` keeps the  *)
(* locals of the other one.  Each call has its own arguments and its own   *)
(* map (`HashMap::new()`, line 78); the wall clock is the process's.       *)
(***************************************************************************)
FirstEvents == {SetAliceAbc, SetSubAlice, RegNoDomain}
SecondEvents == {RegAlice, SetSubAlice, RegNoDomain}

PairLists(E) == UNION {[1..n -> E] : n \in 0..(MaxEvents - 1)}

\* the locals of a call at its start
NewCall(id, txn, a) ==
    [id |-> id, transaction |-> txn, ans_contract_address |-> a, pc |-> "call",
     addr |-> "", i |-> 0, current_ans_lookups |-> EmptyMap, returned |-> NoMap,
     panic_msg |-> NoPanic]

InitTwo ==
    /\ transaction \in
          [kind : {"UserTransaction"}, version : {V42}, events : PairLists(FirstEvents)]
    /\ ans_contract_address = Some(AnsAddr)
    /\ pc = "call"
    /\ addr = ""
    /\ i = 0
    /\ current_ans_lookups = EmptyMap
    /\ returned = NoMap
    /\ panic_msg = NoPanic
    /\ clock = 0
    /\ parked \in
          {NewCall(2, t, a) :
              t \in [kind : {"UserTransaction"}, version : {V2p63},
                     events : PairLists(SecondEvents)],
              a \in {None, Some(AnsAddr)}}

\* Mutant: the map is no local of the call, both calls write the same one.
Switch_SharedMap ==
    /\ parked.id # 0
    /\ transaction' = parked.transaction
    /\ ans_contract_address' = parked.ans_contract_address
    /\ pc' = parked.pc
    /\ addr' = parked.addr
    /\ i' = parked.i
    /\ returned' = parked.returned
    /\ panic_msg' = parked.panic_msg
    /\ parked' =
          [id |-> 3 - parked.id, transaction |-> transaction,
           ans_contract_address |-> ans_contract_address, pc |-> pc, addr |-> addr,
           i |-> i, current_ans_lookups |-> current_ans_lookups,
           returned |-> returned, panic_msg |-> panic_msg]
    /\ UNCHANGED <<current_ans_lookups, clock>>

\* The caller goes on with the other call: the locals of the two calls
\* change places, the clock is the same for both.
Switch ==
    /\ parked.id # 0
    /\ transaction' = parked.transaction
    /\ ans_contract_address' = parked.ans_contract_address
    /\ pc' = parked.pc
    /\ addr' = parked.addr
    /\ i' = parked.i
    /\ current_ans_lookups' = parked.current_ans_lookups
    /\ returned' = parked.returned
    /\ panic_msg' = parked.panic_msg
    /\ parked' =
          [id |-> 3 - parked.id, transaction |-> transaction,
           ans_contract_address |-> ans_contract_address, pc |-> pc, addr |-> addr,
           i |-> i, current_ans_lookups |-> current_ans_lookups,
           returned |-> returned, panic_msg |-> panic_msg]
    /\ UNCHANGED clock

\* a step of the running call
Run == parked.id # 0 /\ Next

NextTwo ==
    \/ Run
    \/ Switch

SpecTwo == InitTwo /\ [][NextTwo]_vars

(***************************************************************************)
(* Vocabulary of the properties, stated on the arguments of the call       *)
(***************************************************************************)
events == transaction.events
Configured == ans_contract_address.some
UserCall == Configured /\ transaction.kind = "UserTransaction"

IsSetType(e) ==
    e.typ.module = "domains" /\ e.typ.name = "SetNameAddressEventV1"
IsRegisterType(e) ==
    e.typ.module = "domains" /\ e.typ.name = "RegisterNameEventV1"

\* the event is defined at the configured address
AtConfigured(e) ==
    e.typ.tag = "Struct" /\ e.typ.address = ans_contract_address.v

\* an accepted event: configured address, one of the two known types
Known(e) == AtConfigured(e) /\ (IsSetType(e) \/ IsRegisterType(e))

\* the payload has the shape its type asks for
WellShaped(e) ==
    /\ e.data.domain_name.present
    /\ e.data.subdomain_name.present
    /\ e.data.expiration_time_secs.present
    /\ e.data.expiration_time_secs.numeric
    /\ IsSetType(e) => e.data.new_address.present

\* the expiration is an unsigned integer that is a calendar timestamp
ValidExpiration(e) ==
    /\ ~e.data.expiration_time_secs.neg \/ e.data.expiration_time_secs.mag = U64Zero
    /\ U64Leq(e.data.expiration_time_secs.mag, NaiveDateTimeMaxSecs)

\* the key an accepted event targets
TargetKey(e) ==
    <<e.data.domain_name.s,
      IF e.data.subdomain_name.vec = <<>> THEN "" ELSE e.data.subdomain_name.vec[1]>>

\* the record from_transaction builds from the accepted event e alone
RecordOf(e) ==
    BuildRecord(MaybeAnsEvent(QualifiedType(e.typ), e.data).ev,
                AsI64(transaction.version),
                [secs |-> e.data.expiration_time_secs.mag], 0)

\* equal in every field but inserted_at
SameFields(r, q) ==
    /\ r.domain = q.domain
    /\ r.subdomain = q.subdomain
    /\ r.registered_address = q.registered_address
    /\ r.last_transaction_version = q.last_transaction_version
    /\ r.expiration_timestamp = q.expiration_timestamp

\* events[j] is the last accepted event among the first n that targets k
LastOn(j, k, n) ==
    /\ j \in 1..n
    /\ Known(events[j])
    /\ TargetKey(events[j]) = k
    /\ \A l \in (j + 1)..n : ~(Known(events[l]) /\ TargetKey(events[l]) = k)

\* the events folded so far
Folded == IF pc = "call" THEN 0 ELSE i - 1

(***************************************************************************)
(* C1  Last writer wins, no field-level merge: in the map a user call      *)
(* returns, the record at every key equals, field by field, the record     *)
(* built from the last accepted event that targets the key.                *)
(***************************************************************************)
C1_LastWriterWins ==
    (returned.some /\ UserCall) =>
        \A k \in DOMAIN returned.map :
            \E j \in 1..Len(events) :
                /\ LastOn(j, k, Len(events))
                /\ SameFields(returned.map[k], RecordOf(events[j]))

\* A returned map whose key was written twice, by records that differ in
\* address and in expiration.
C1_Witness ==
    /\ returned.some
    /\ UserCall
    /\ \E j, l \in 1..Len(events) :
          /\ j < l
          /\ Known(events[j])
          /\ LastOn(l, TargetKey(events[j]), Len(events))
          /\ RecordOf(events[j]).registered_address #
                 RecordOf(events[l]).registered_address
          /\ RecordOf(events[j]).expiration_timestamp #
                 RecordOf(events[l]).expiration_timestamp
          /\ TargetKey(events[j]) \in DOMAIN returned.map

(***************************************************************************)
(* C2  A fatal decode never yields a partial map: when a user call's       *)
(* transaction has an accepted event whose payload is not well shaped,     *)
(* nothing is returned, and the fold never goes past that event, wherever  *)
(* it sits.                                                                *)
(***************************************************************************)
C2_FatalDecodeNoMap ==
    UserCall =>
        /\ (\E j \in 1..Len(events) : Known(events[j]) /\ ~WellShaped(events[j]))
              => (~returned.some /\ pc # "returned")
        /\ \A j \in 1..Folded : ~(Known(events[j]) /\ ~WellShaped(events[j]))

\* The panic on a bad event in the middle, between two good ones, with a
\* record already in the map.
C2_Witness ==
    /\ pc = "panicked"
    /\ panic_msg.what = "decode"
    /\ ~returned.some
    /\ Len(events) = 3
    /\ i = 2
    /\ Known(events[2]) /\ ~WellShaped(events[2])
    /\ \A j \in {1, 3} :
          Known(events[j]) /\ WellShaped(events[j]) /\ ValidExpiration(events[j])
    /\ DOMAIN current_ans_lookups # {}

(***************************************************************************)
(* C3  Address filtering: every record of the map, while it is built and   *)
(* when it is returned, is the record of an event defined at the           *)
(* configured address; and the iteration over an event defined at another  *)
(* address leaves the map as it was and goes on to the next event.         *)
(***************************************************************************)
C3_FromConfigured(m) ==
    \A k \in DOMAIN m :
        \E j \in 1..Len(events) :
            /\ Known(events[j])
            /\ TargetKey(events[j]) = k
            /\ SameFields(m[k], RecordOf(events[j]))

C3_OtherAddressStep ==
    (/\ pc = "loop"
     /\ i <= Len(events)
     /\ events[i].typ.tag = "Struct"
     /\ events[i].typ.address # ans_contract_address.v)
        => /\ current_ans_lookups' = current_ans_lookups
           /\ pc' = "loop"
           /\ i' = i + 1
           /\ returned' = returned

C3_AddressFiltering ==
    /\ [](C3_FromConfigured(current_ans_lookups) /\ C3_FromConfigured(returned.map))
    /\ [][C3_OtherAddressStep]_vars

\* A returned map with a record at a key that a later event of another
\* address, carrying another new address, targets too.
C3_Witness ==
    /\ returned.some
    /\ UserCall
    /\ \E j, l \in 1..Len(events) :
          /\ j < l
          /\ LastOn(j, TargetKey(events[j]), Len(events))
          /\ events[l].typ.tag = "Struct"
          /\ events[l].typ.address # ans_contract_address.v
          /\ IsSetType(events[l])
          /\ WellShaped(events[l])
          /\ TargetKey(events[l]) = TargetKey(events[j])
          /\ GetString(events[l].data.new_address.vec) #
                 returned.map[TargetKey(events[j])].registered_address

(***************************************************************************)
(* C4  Feature disabled: with no address configured the call never enters  *)
(* the loop and never panics, the map stays empty, and what it returns is  *)
(* the empty map, whatever the transaction.                                *)
(***************************************************************************)
C4_DisabledReturnsEmpty ==
    ~ans_contract_address.some =>
        /\ pc \in {"call", "returned"}
        /\ current_ans_lookups = EmptyMap
        /\ pc = "returned" => returned = [some |-> TRUE, map |-> EmptyMap]
        /\ pc = "call" => ENABLED CallDisabled

\* The empty map returned for a user transaction that holds a good event of
\* a known type, one with a malformed payload and one with a bad expiration.
C4_Witness ==
    /\ ~ans_contract_address.some
    /\ pc = "returned"
    /\ returned.some
    /\ transaction.kind = "UserTransaction"
    /\ \E j, l, n \in 1..Len(events) :
          /\ IsSetType(events[j]) /\ WellShaped(events[j]) /\ ValidExpiration(events[j])
          /\ IsRegisterType(events[l]) /\ ~WellShaped(events[l])
          /\ IsRegisterType(events[n]) /\ WellShaped(events[n])
             /\ ~ValidExpiration(events[n])

(***************************************************************************)
(* C5  Registration never carries an address: at every key whose last      *)
(* folded accepted event is a RegisterNameEventV1, the record's            *)
(* registered_address is absent, in the map under construction and in the  *)
(* returned map.                                                           *)
(***************************************************************************)
C5_RegistrationNoAddress ==
    UserCall =>
        /\ \A k \in DOMAIN current_ans_lookups :
              \A j \in 1..Folded :
                  (LastOn(j, k, Folded) /\ IsRegisterType(events[j]))
                      => current_ans_lookups[k].registered_address = None
        /\ \A k \in DOMAIN returned.map :
              \A j \in 1..Len(events) :
                  (LastOn(j, k, Len(events)) /\ IsRegisterType(events[j]))
                      => returned.map[k].registered_address = None

\* A returned record without address whose key an address update wrote
\* first and a registration, its payload holding an address, wrote last.
C5_Witness ==
    /\ returned.some
    /\ UserCall
    /\ \E j, l \in 1..Len(events) :
          /\ j < l
          /\ Known(events[j]) /\ IsSetType(events[j])
          /\ events[j].data.new_address.vec # <<>>
          /\ TargetKey(events[j]) = TargetKey(events[l])
          /\ LastOn(l, TargetKey(events[l]), Len(events))
          /\ IsRegisterType(events[l])
          /\ events[l].data.new_address.vec # <<>>
          /\ returned.map[TargetKey(events[l])].registered_address = None

(***************************************************************************)
(* C6  An address update sets or clears the address: at every key whose    *)
(* last folded accepted event is a SetNameAddressEventV1, the record's     *)
(* registered_address is the first element of the event's new_address      *)
(* container when it has one, and absent when the container is empty.      *)
(***************************************************************************)
C6_Expected(e) ==
    IF e.data.new_address.vec = <<>>
    THEN [some |-> FALSE, v |-> ""]
    ELSE [some |-> TRUE, v |-> e.data.new_address.vec[1]]

C6_AddressUpdate ==
    UserCall =>
        /\ \A k \in DOMAIN current_ans_lookups :
              \A j \in 1..Folded :
                  (LastOn(j, k, Folded) /\ IsSetType(events[j]))
                      => current_ans_lookups[k].registered_address = C6_Expected(events[j])
        /\ \A k \in DOMAIN returned.map :
              \A j \in 1..Len(events) :
                  (LastOn(j, k, Len(events)) /\ IsSetType(events[j]))
                      => returned.map[k].registered_address = C6_Expected(events[j])

\* Version 42 returns ("alice", "") with Some("0xabc") set by the last
\* update of that key, next to a key whose last update cleared the address.
C6_Witness ==
    /\ returned.some
    /\ UserCall
    /\ transaction.version = V42
    /\ \E j, l \in 1..Len(events) :
          /\ LastOn(j, <<"alice", "">>, Len(events))
          /\ IsSetType(events[j])
          /\ events[j].data.new_address.vec = <<"0xabc">>
          /\ returned.map[<<"alice", "">>].registered_address = [some |-> TRUE, v |-> "0xabc"]
          /\ returned.map[<<"alice", "">>].last_transaction_version =
                 [neg |-> FALSE, mag |-> <<42, 0, 0, 0>>]
          /\ LastOn(l, TargetKey(events[l]), Len(events))
          /\ IsSetType(events[l])
          /\ events[l].data.new_address.vec = <<>>
          /\ ~returned.map[TargetKey(events[l])].registered_address.some

(***************************************************************************)
(* C7  Unrecognized types are skipped silently: the iteration over an      *)
(* event of the configured address whose qualified type is neither of the  *)
(* two known ones leaves the map as it was, does not panic and goes on to  *)
(* the next event, whatever the payload.                                   *)
(***************************************************************************)
C7_UnrecognizedStep ==
    (/\ pc = "loop"
     /\ i <= Len(events)
     /\ AtConfigured(events[i])
     /\ ~IsSetType(events[i])
     /\ ~IsRegisterType(events[i]))
        => /\ current_ans_lookups' = current_ans_lookups
           /\ pc' = "loop"
           /\ i' = i + 1
           /\ returned' = returned
           /\ panic_msg' = panic_msg

C7_UnrecognizedSkipped == [][C7_UnrecognizedStep]_vars

\* The loop has gone past an unrecognized event of the configured address
\* with a malformed payload, and the record folded before it is in the map.
C7_Witness ==
    /\ pc = "loop"
    /\ UserCall
    /\ i = 3
    /\ Known(events[1])
    /\ AtConfigured(events[2])
    /\ ~IsSetType(events[2]) /\ ~IsRegisterType(events[2])
    /\ ~events[2].data.expiration_time_secs.present
    /\ DOMAIN current_ans_lookups = {TargetKey(events[1])}
    /\ SameFields(current_ans_lookups[TargetKey(events[1])], RecordOf(events[1]))

(***************************************************************************)
(* C8  Only user transactions are inspected: with an address configured,   *)
(* a call on a transaction of another kind never enters the loop and never *)
(* panics, and what it returns is the empty map.                           *)
(***************************************************************************)
C8_NotUserReturnsEmpty ==
    (ans_contract_address.some /\ transaction.kind # "UserTransaction") =>
        /\ pc \in {"call", "returned"}
        /\ current_ans_lookups = EmptyMap
        /\ pc = "returned" => returned = [some |-> TRUE, map |-> EmptyMap]
        /\ pc = "call" => ENABLED CallNotUser

\* The empty map returned for a block metadata transaction that holds an
\* accepted good event and an accepted malformed one.
C8_Witness ==
    /\ ans_contract_address.some
    /\ transaction.kind = "BlockMetadataTransaction"
    /\ pc = "returned"
    /\ returned.some
    /\ \E j, l \in 1..Len(events) :
          /\ Known(events[j]) /\ WellShaped(events[j]) /\ ValidExpiration(events[j])
          /\ Known(events[l]) /\ ~WellShaped(events[l])

(***************************************************************************)
(* C9  Version used verbatim: every record of the map has                  *)
(* last_transaction_version equal, as a number, to the transaction's       *)
(* version, for every version of the unsigned 64-bit range.                *)
(***************************************************************************)
C9_VersionVerbatim ==
    \A k \in DOMAIN current_ans_lookups :
        current_ans_lookups[k].last_transaction_version =
            [neg |-> FALSE, mag |-> transaction.version]

(***************************************************************************)
(* C10  An invalid expiration is fatal, never clamped: a user call never   *)
(* folds an accepted, well-shaped event whose expiration is no unsigned    *)
(* integer or no calendar timestamp, returns nothing when the transaction  *)
(* has one, and panics on it with a message tagged with the transaction's  *)
(* version.                                                                *)
(***************************************************************************)
C10_NeverFolded ==
    UserCall =>
        /\ \A j \in 1..Folded :
              (Known(events[j]) /\ WellShaped(events[j])) => ValidExpiration(events[j])
        /\ (\E j \in 1..Len(events) :
                Known(events[j]) /\ WellShaped(events[j]) /\ ~ValidExpiration(events[j]))
              => (~returned.some /\ pc # "returned")
        /\ \A k \in DOMAIN current_ans_lookups :
              \E j \in 1..Folded :
                  /\ Known(events[j])
                  /\ current_ans_lookups[k].expiration_timestamp =
                         [secs |-> events[j].data.expiration_time_secs.mag]

C10_Tagged ==
    (/\ pc = "panicked"
     /\ WellShaped(events[i])
     /\ ~ValidExpiration(events[i]))
        => /\ panic_msg.what \in {"bigdecimal_to_u64", "timestamp"}
           /\ "version" \in DOMAIN panic_msg
           /\ panic_msg.version = [neg |-> FALSE, mag |-> transaction.version]

C10_InvalidExpirationFatal == C10_NeverFolded /\ C10_Tagged

(***************************************************************************)
(* C11  Optional subdomain decoding: for both event variants, every folded *)
(* accepted event has its record filed in the map under (domain_name, s)   *)
(* with subdomain = s, where s is "" when the payload's subdomain_name     *)
(* container is empty and the container's element when it holds one.       *)
(***************************************************************************)
C11_Subdomain(e) ==
    IF Len(e.data.subdomain_name.vec) = 0 THEN "" ELSE e.data.subdomain_name.vec[1]

C11_SubdomainDecoding ==
    UserCall =>
        \A j \in 1..Folded :
            Known(events[j]) =>
                /\ <<events[j].data.domain_name.s, C11_Subdomain(events[j])>>
                       \in DOMAIN current_ans_lookups
                /\ current_ans_lookups[<<events[j].data.domain_name.s,
                                         C11_Subdomain(events[j])>>].subdomain
                       = C11_Subdomain(events[j])
                /\ returned.some =>
                      /\ <<events[j].data.domain_name.s, C11_Subdomain(events[j])>>
                             \in DOMAIN returned.map
                      /\ returned.map[<<events[j].data.domain_name.s,
                                        C11_Subdomain(events[j])>>].subdomain
                             = C11_Subdomain(events[j])

\* A returned map with the four cases: an address update and a
\* registration with an empty container, filed under (domain, ""), and an
\* address update and a registration with the element "sub".
C11_Witness ==
    /\ returned.some
    /\ UserCall
    /\ \E a, b, c \in 1..Len(events) :
          /\ Known(events[a]) /\ IsSetType(events[a])
          /\ events[a].data.subdomain_name.vec = <<"sub">>
          /\ returned.map[<<events[a].data.domain_name.s, "sub">>].subdomain = "sub"
          /\ Known(events[b]) /\ IsRegisterType(events[b])
          /\ events[b].data.subdomain_name.vec = <<"sub">>
          /\ returned.map[<<events[b].data.domain_name.s, "sub">>].subdomain = "sub"
          /\ events[a].data.domain_name.s # events[b].data.domain_name.s
          /\ Known(events[c])
          /\ events[c].data.subdomain_name.vec = <<>>
          /\ returned.map[<<events[c].data.domain_name.s, "">>].subdomain = ""

(***************************************************************************)
(* C12  Domain is non-empty: every record of the map, while it is built    *)
(* and when it is returned, has a non-empty domain.                        *)
(***************************************************************************)
C12_DomainNonEmpty ==
    /\ \A k \in DOMAIN current_ans_lookups : current_ans_lookups[k].domain # ""
    /\ \A k \in DOMAIN returned.map : returned.map[k].domain # ""

(***************************************************************************)
(* C13  No shared state between calls: when the caller runs two calls on   *)
(* different transactions, one after the other or interleaved step by      *)
(* step, the map and the outcome of each call are those of its own         *)
(* arguments alone: the map under construction holds exactly the keys its  *)
(* own folded accepted events target, each with the record of the last of  *)
(* them (inserted_at apart), the call panics only on an event of its own   *)
(* and returns its own map only after its own last event.                  *)
(***************************************************************************)
C13_OwnKeys(n) ==
    {TargetKey(events[j]) : j \in {l \in 1..n : Known(events[l])}}

C13_OwnMap(m, n) ==
    /\ DOMAIN m = C13_OwnKeys(n)
    /\ \A k \in DOMAIN m :
          \E j \in 1..n : LastOn(j, k, n) /\ SameFields(m[k], RecordOf(events[j]))

C13_NoSharedState ==
    /\ UserCall => C13_OwnMap(current_ans_lookups, Folded)
    /\ ~UserCall => current_ans_lookups = EmptyMap
    /\ returned.some <=> pc = "returned"
    /\ pc = "returned" =>
          /\ returned.map = current_ans_lookups
          /\ UserCall => Folded = Len(events)
    /\ (UserCall /\ pc # "call") =>
          \A j \in 1..Folded :
              Known(events[j]) => (WellShaped(events[j]) /\ ValidExpiration(events[j]))
    /\ pc = "panicked" =>
          /\ UserCall
          /\ Known(events[i])
          /\ ~(WellShaped(events[i]) /\ ValidExpiration(events[i]))

\* Both calls have returned; they wrote the same key with different
\* records, and the second call's insert fell between two inserts of the
\* first.
C13_Witness ==
    /\ parked.id = 1
    /\ pc = "returned"
    /\ parked.pc = "returned"
    /\ <<"alice", "">> \in DOMAIN returned.map
    /\ <<"alice", "">> \in DOMAIN parked.returned.map
    /\ returned.map[<<"alice", "">>].registered_address #
           parked.returned.map[<<"alice", "">>].registered_address
    /\ returned.map[<<"alice", "">>].last_transaction_version #
           parked.returned.map[<<"alice", "">>].last_transaction_version
    /\ \E k1, k2 \in DOMAIN parked.returned.map :
          /\ parked.returned.map[k1].inserted_at
                 < returned.map[<<"alice", "">>].inserted_at
          /\ returned.map[<<"alice", "">>].inserted_at
                 < parked.returned.map[k2].inserted_at

(***************************************************************************)
(* C14  Abort at the first failing event: a decode panic is on the first   *)
(* accepted event, in event order, that fails to decode; the map holds the *)
(* events before it and nothing of the events after it, no step follows    *)
(* the panic, and the message names the transaction's version and the      *)
(* qualified type and raw payload of that event.                           *)
(***************************************************************************)
C14_FirstFailing ==
    (pc = "panicked" /\ panic_msg.what = "decode") =>
        /\ Known(events[i]) /\ ~WellShaped(events[i])
        /\ \A j \in 1..(i - 1) : ~(Known(events[j]) /\ ~WellShaped(events[j]))
        /\ C13_OwnMap(current_ans_lookups, i - 1)
        /\ ~returned.some
        /\ ~ENABLED Next
        /\ panic_msg.event_type = events[i].typ.module \o "::" \o events[i].typ.name
        /\ panic_msg.data = events[i].data

C14_VersionNamed ==
    (pc = "panicked" /\ panic_msg.what = "decode") =>
        panic_msg.version = [neg |-> FALSE, mag |-> transaction.version]

C14_AbortAtFirstFailing == C14_FirstFailing /\ C14_VersionNamed

(***************************************************************************)
(* C15  Filtering precedes decoding: the iteration over an event defined   *)
(* at another address than the configured one never panics, also when the  *)
(* event's qualified type is one of the two known ones and its payload is  *)
(* malformed or its expiration invalid; the loop goes on with the next     *)
(* event, and every panic is on an event of the configured address.        *)
(***************************************************************************)
C15_OtherAddressStep ==
    (/\ pc = "loop"
     /\ i <= Len(events)
     /\ events[i].typ.tag = "Struct"
     /\ events[i].typ.address # ans_contract_address.v
     /\ IsSetType(events[i]) \/ IsRegisterType(events[i])
     /\ ~WellShaped(events[i]) \/ ~ValidExpiration(events[i]))
        => /\ pc' = "loop"
           /\ i' = i + 1
           /\ panic_msg' = [what |-> "none"]

C15_FilterBeforeDecode ==
    /\ [](pc = "panicked" => events[i].typ.address = ans_contract_address.v)
    /\ [][C15_OtherAddressStep]_vars

\* The loop has gone past a malformed registration with an invalid
\* expiration, defined at another address, and has folded the next event.
C15_Witness ==
    /\ UserCall
    /\ pc = "loop"
    /\ i = 3
    /\ events[1].typ.tag = "Struct"
    /\ events[1].typ.address # ans_contract_address.v
    /\ IsRegisterType(events[1])
    /\ ~WellShaped(events[1])
    /\ ~ValidExpiration(events[1])
    /\ Known(events[2])
    /\ DOMAIN current_ans_lookups = {TargetKey(events[2])}

(***************************************************************************)
(* C16  Key and record agree in every state of the fold: every entry of    *)
(* the map under construction and of the returned map is filed under       *)
(* (record.domain, record.subdomain).                                      *)
(***************************************************************************)
C16_KeyIsName ==
    /\ \A k \in DOMAIN current_ans_lookups :
          k = <<current_ans_lookups[k].domain, current_ans_lookups[k].subdomain>>
    /\ \A k \in DOMAIN returned.map :
          k = <<returned.map[k].domain, returned.map[k].subdomain>>

\* A returned map of three names, two of one domain, one with an empty
\* subdomain.
C16_Witness ==
    /\ returned.some
    /\ Cardinality(DOMAIN returned.map) = 3
    /\ \E k1, k2 \in DOMAIN returned.map :
          /\ k1 # k2
          /\ k1[1] = k2[1]
          /\ k1[2] = ""
          /\ returned.map[k2].subdomain # ""

(***************************************************************************)
(* C17  No accepted event is lost: the key set of the map a user call      *)
(* returns is exactly the set of (domain_name, subdomain or "") pairs of   *)
(* the transaction's accepted events, and no step of the fold removes a    *)
(* key from the map.                                                       *)
(***************************************************************************)
C17_Keys ==
    (returned.some /\ UserCall) =>
        DOMAIN returned.map =
            {TargetKey(events[j]) : j \in {l \in 1..Len(events) : Known(events[l])}}

C17_NoAcceptedEventLost ==
    /\ []C17_Keys
    /\ [][DOMAIN current_ans_lookups \subseteq DOMAIN current_ans_lookups']_vars

\* A returned map of two keys for three accepted events, two of them on one
\* key, with events in between that add no key.
C17_Witness ==
    /\ returned.some
    /\ UserCall
    /\ Cardinality(DOMAIN returned.map) = 2
    /\ Cardinality({l \in 1..Len(events) : Known(events[l])}) = 3
    /\ \E j, l \in 1..Len(events) :
          /\ j < l
          /\ Known(events[j]) /\ Known(events[l])
          /\ TargetKey(events[j]) = TargetKey(events[l])
          /\ events[j] # events[l]

====
